---- MODULE Spec2Model ----
(***************************************************************************)
(* Model of pkg/helpers/struct.go: the conversion between general-purpose  *)
(* Go values (interface{}) and the messages.Value tagged union.            *)
(*                                                                         *)
(* Go values are records tagged with their reflect.Kind (field k) and      *)
(* their runtime type (field ty).  Go strings and byte slices are          *)
(* sequences of bytes (0..255).  A call of NewValue / NewStruct / NewList  *)
(* has one of three outcomes: it returns a value, it returns an error, or  *)
(* it panics.  Because Go randomises the iteration order of maps, the      *)
(* encoders are modelled as the SET of outcomes a call can produce.        *)
(***************************************************************************)
EXTENDS Integers, Sequences, FiniteSets, TLC

VARIABLES mode, arg, xin, pc, op, out, out2, dec

vars == <<mode, arg, xin, pc, op, out, out2, dec>>

(***************************************************************************)
(* Bounds of the model.                                                    *)
(***************************************************************************)
MaxStrLen == 2
MaxBlobLen == 3
MaxLen == 2
MaxKeys == 2
MaxDepth == 2

(***************************************************************************)
(* Go values.                                                              *)
(***************************************************************************)
NilV == [k |-> "Nil"]
BoolV(ty, b) == [k |-> "Bool", ty |-> ty, b |-> b]
IntV(kind, ty, i) == [k |-> kind, ty |-> ty, i |-> i]
FloatV(kind, ty, f) == [k |-> kind, ty |-> ty, f |-> f]
StringV(ty, s) == [k |-> "String", ty |-> ty, s |-> s]
TimeV(sec, nsec, loc) ==
    [k |-> "Struct", ty |-> "time.Time", sec |-> sec, nsec |-> nsec, loc |-> loc]
RecordV(ty, fields) == [k |-> "Struct", ty |-> ty, fields |-> fields]
MapV(ty, m) == [k |-> "Map", ty |-> ty, m |-> m]
IntMapV(ty, mi) == [k |-> "Map", ty |-> ty, mi |-> mi]
BytesV(ty, bs) == [k |-> "Slice", ty |-> ty, bs |-> bs]
ListV(ty, l) == [k |-> "Slice", ty |-> ty, l |-> l]
OtherV(kind, ty) == [k |-> kind, ty |-> ty]

\* float64 values: finite (n), NaN, or an infinity of sign n
Fin(n) == [cls |-> "fin", n |-> n]
NaN == [cls |-> "nan", n |-> 0]
Inf(sign) == [cls |-> "inf", n |-> sign]

IsNaN(f) == f.cls = "nan"
IsInf(f, sign) == f.cls = "inf" /\ f.n = sign

\* reflect.TypeOf(v) as printed by %T
TypeOf(v) == IF v.k = "Nil" THEN "<nil>" ELSE v.ty

\* the comma-less type assertion v.(T): succeeds only on the exact type T
AssertsTo(v, T) == TypeOf(v) = T

(***************************************************************************)
(* Outcomes of a call and the errors it can return.                        *)
(***************************************************************************)
Ok(val) == [st |-> "ok", val |-> val]
Err(e) == [st |-> "err", err |-> e]
Panic(msg) == [st |-> "panic", msg |-> msg]

ErrInvalidUTF8(s) == [e |-> "invalid UTF-8 in string", s |-> s]
ErrInvalidType(ty) == [e |-> "invalid type", ty |-> ty]
ErrConvertStruct(cause) == [e |-> "could not convert value to struct", cause |-> cause]
ErrUnpack(elemty, arr, cause) ==
    [e |-> "error unpacking field", elemty |-> elemty, arr |-> arr, cause |-> cause]

(***************************************************************************)
(* utf8.ValidString over a byte sequence.                                  *)
(***************************************************************************)
IsCont(s, i, lo, hi) == i <= Len(s) /\ s[i] >= lo /\ s[i] <= hi

RECURSIVE ValidFrom(_, _)
ValidFrom(s, i) ==
    IF i > Len(s) THEN TRUE
    ELSE LET b == s[i] IN
         IF b < 128 THEN ValidFrom(s, i + 1)
         ELSE IF b >= 194 /\ b <= 223
              THEN IsCont(s, i + 1, 128, 191) /\ ValidFrom(s, i + 2)
         ELSE IF b >= 224 /\ b <= 239
              THEN /\ IsCont(s, i + 1, IF b = 224 THEN 160 ELSE 128,
                                       IF b = 237 THEN 159 ELSE 191)
                   /\ IsCont(s, i + 2, 128, 191)
                   /\ ValidFrom(s, i + 3)
         ELSE IF b >= 240 /\ b <= 244
              THEN /\ IsCont(s, i + 1, IF b = 240 THEN 144 ELSE 128,
                                       IF b = 244 THEN 143 ELSE 191)
                   /\ IsCont(s, i + 2, 128, 191)
                   /\ IsCont(s, i + 3, 128, 191)
                   /\ ValidFrom(s, i + 4)
         ELSE FALSE

ValidString(s) == ValidFrom(s, 1)

(***************************************************************************)
(* base64.StdEncoding.EncodeToString over a byte sequence; the text is a   *)
(* sequence of ASCII codes.                                                *)
(***************************************************************************)
B64Char(i) ==
    IF i < 26 THEN 65 + i
    ELSE IF i < 52 THEN 97 + (i - 26)
    ELSE IF i < 62 THEN 48 + (i - 52)
    ELSE IF i = 62 THEN 43 ELSE 47

B64Pad == <<61>>

RECURSIVE B64From(_, _)
B64From(b, i) ==
    LET rem == Len(b) - i + 1 IN
    IF rem <= 0 THEN <<>>
    ELSE IF rem = 1
         THEN LET val == b[i] * 65536 IN
              <<B64Char(val \div 262144), B64Char((val \div 4096) % 64)>>
                  \o B64Pad \o B64Pad
    ELSE IF rem = 2
         THEN LET val == b[i] * 65536 + b[i + 1] * 256 IN
              <<B64Char(val \div 262144), B64Char((val \div 4096) % 64),
                B64Char((val \div 64) % 64)>> \o B64Pad
    ELSE LET val == b[i] * 65536 + b[i + 1] * 256 + b[i + 2] IN
         <<B64Char(val \div 262144), B64Char((val \div 4096) % 64),
           B64Char((val \div 64) % 64), B64Char(val % 64)>> \o B64From(b, i + 3)

EncodeToString(b) == B64From(b, 1)

(***************************************************************************)
(* The messages.Value union and its constructors.  A *Value is             *)
(*   [vk |-> "nil"]                    a nil *Value                        *)
(*   [vk |-> "unset"]                  a Value whose Kind is nil           *)
(*   [vk |-> K, nilw |-> TRUE]         Kind is a typed nil wrapper pointer *)
(*   [vk |-> K, <payload>]             Kind is a wrapper holding a payload *)
(* The pointer payloads (Struct, ListValue, Timestamp) may be NilPtr.       *)
(***************************************************************************)
NilPtr == [ptr |-> "nil"]
IsNilPtr(p) == "ptr" \in DOMAIN p

NilValue == [vk |-> "nil"]
UnsetValue == [vk |-> "unset"]
NilWrapper(kind) == [vk |-> kind, nilw |-> TRUE]

StructPtr(data) == [Data |-> data]
ListPtr(values) == [Values |-> values]
TimestampPtr(seconds, nanos) == [seconds |-> seconds, nanos |-> nanos]

NewNullValue == [vk |-> "NullValue"]
NewBoolValue(v) == [vk |-> "BoolValue", b |-> v]
NewNumberValue(v) == [vk |-> "NumberValue", f |-> v]
NewStringValue(v) == [vk |-> "StringValue", s |-> v]
NewStructValue(v) == [vk |-> "StructValue", sv |-> v]
NewListValue(v) == [vk |-> "ListValue", lv |-> v]

\* a plausible slip: the nanosecond part of the instant is not stored
TimestampNewSecondsOnly(t) == TimestampPtr(t.sec, 0)

\* timestamppb.New(t): the instant as Unix seconds and nanoseconds; the
\* location of t is not part of the message
TimestampNew(t) == TimestampPtr(t.sec, t.nsec)

NewTimestampValue(v) == [vk |-> "TimestampValue", ts |-> TimestampNew(v)]

(***************************************************************************)
(* Conversions of the numeric cases of NewValue.                           *)
(***************************************************************************)
\* a plausible slip: a signed integer converted through an unsigned byte
Float64OfIntNarrow(i) == Fin(i % 256)

\* float64(v.(int)), float64(v.(int32)), ...: exact for the integers of the model
Float64OfInt(i) == Fin(i)

\* float64(v.(float32)): widening is exact
Float64OfFloat32(f) == f

(***************************************************************************)
(* Maps.  A Go map is a function from its keys to Go values: field m when  *)
(* the key kind is string (keys are byte sequences), field mi when the key *)
(* type is int.  Go visits the entries of a map in an unspecified order:   *)
(* every permutation of the keys is a possible order of a range loop.      *)
(***************************************************************************)
EmptyMap == <<>>
Put(m, key, val) == [x \in DOMAIN m \cup {key} |-> IF x = key THEN val ELSE m[x]]

Perms(S) ==
    {f \in [1..Cardinality(S) -> S] : \A i, j \in DOMAIN f : i # j => f[i] # f[j]}

HasStringKeys(v) == "m" \in DOMAIN v
MapKeys(v) == IF HasStringKeys(v) THEN DOMAIN v.m ELSE DOMAIN v.mi
MapAt(v, key) == IF HasStringKeys(v) THEN v.m[key] ELSE v.mi[key]

\* the text "<int Value>"
IntValueString == <<60, 105, 110, 116, 32, 86, 97, 108, 117, 101, 62>>

\* mapIter.Key().String(): the key itself when its kind is String, else
\* the text "<T Value>", which is the same for every key of the map
KeyString(v, key) == IF HasStringKeys(v) THEN key ELSE IntValueString

\* the loop that copies a map of another type into map[string]interface{}
RECURSIVE ReflectLoop(_, _, _, _)
ReflectLoop(v, ord, i, reflected) ==
    IF i > Len(ord) THEN reflected
    ELSE ReflectLoop(v, ord, i + 1,
                     Put(reflected, KeyString(v, ord[i]), MapAt(v, ord[i])))

\* the maps `reflected` can be when NewStruct is called
Reflected(v) ==
    IF AssertsTo(v, "map[string]interface{}") THEN {v.m}
    ELSE {ReflectLoop(v, ord, 1, EmptyMap) : ord \in Perms(MapKeys(v))}

\* mapstructure.Decode(v, &interMap) on a record of exported scalar fields
Decode(v) == v.fields

(***************************************************************************)
(* Slices.                                                                 *)
(***************************************************************************)
HasBytes(v) == "bs" \in DOMAIN v

\* refVal.Len() and refVal.Index(i).Interface(), i counted from 1
SliceLen(v) == IF HasBytes(v) THEN Len(v.bs) ELSE Len(v.l)
SliceIndex(v, i) == IF HasBytes(v) THEN IntV("Uint8", "uint8", v.bs[i]) ELSE v.l[i]

\* refVal.Field(i): panics unless the kind of refVal is Struct
ReflectField(v, i) ==
    IF v.k = "Struct" THEN Ok(v.fields[i])
    ELSE Panic("reflect: call of reflect.Value.Field on slice Value")

\* a plausible slip: the element is stored at the mirrored index
StoreMirrored(values, i, val) == [values EXCEPT ![Len(values) + 1 - i] = val]

\* listVal.Values[i] = val
Store(values, i, val) == [values EXCEPT ![i] = val]

\* make([]*messages.Value, n): n nil pointers
MakeValues(n) == [j \in 1..n |-> NilValue]

(***************************************************************************)
(* NewValue, NewStruct and NewList: the set of outcomes of a call.         *)
(***************************************************************************)
RECURSIVE NewValue(_), NewStruct(_), NewStructLoop(_, _, _, _),
          SliceLoop(_, _, _), NewListLoop(_, _, _)

\* the range loop of NewStruct visiting the keys in the order ord
NewStructLoop(m, ord, i, data) ==
    IF i > Len(ord) THEN {Ok(StructPtr(data))}
    ELSE LET key == ord[i] IN
         IF ~ValidString(key) THEN {Err(ErrInvalidUTF8(key))}
         ELSE UNION {IF o.st = "ok"
                     THEN NewStructLoop(m, ord, i + 1, Put(data, key, o.val))
                     ELSE {o} : o \in NewValue(m[key])}

NewStruct(m) == UNION {NewStructLoop(m, ord, 1, EmptyMap) : ord \in Perms(DOMAIN m)}

\* the loop of the reflect.Slice branch of NewValue
SliceLoop(v, i, values) ==
    IF i > SliceLen(v) THEN {Ok(NewListValue(ListPtr(values)))}
    ELSE UNION {IF o.st = "ok" THEN SliceLoop(v, i + 1, Store(values, i, o.val))
                ELSE IF o.st = "panic" THEN {o}
                ELSE LET fld == ReflectField(v, i) IN
                     IF fld.st = "panic" THEN {fld}
                     ELSE {Err(ErrUnpack(TypeOf(fld.val), v, o.err))}
                : o \in NewValue(SliceIndex(v, i))}

\* the loop of NewList
NewListLoop(l, i, values) ==
    IF i > Len(l) THEN {Ok(ListPtr(values))}
    ELSE UNION {IF o.st = "ok" THEN NewListLoop(l, i + 1, Store(values, i, o.val))
                ELSE {o} : o \in NewValue(l[i])}

NewList(l) == NewListLoop(l, 1, MakeValues(Len(l)))

\* v.(T) without the comma-ok form panics when the dynamic type is not T
AssertPanic(v, T) ==
    Panic("interface conversion: interface {} is " \o TypeOf(v) \o ", not " \o T)

\* a plausible slip: the special case for []byte is missing
IsByteSliceNever(v) == FALSE

\* byteEnc, ok := v.([]byte)
IsByteSlice(v) == AssertsTo(v, "[]byte")

\* the integer and float cases, which all have the shape
\*   case reflect.K: return NewNumberValue(float64(v.(T))), nil
NumberCase(v, T) ==
    IF ~AssertsTo(v, T) THEN {AssertPanic(v, T)}
    ELSE IF v.k \in {"Float32", "Float64"}
         THEN {Ok(NewNumberValue(Float64OfFloat32(v.f)))}
         ELSE {Ok(NewNumberValue(Float64OfInt(v.i)))}

NewValue(v) ==
    IF v.k = "Nil" THEN {Ok(NewNullValue)}
    ELSE CASE v.k = "Bool" ->
                IF AssertsTo(v, "bool") THEN {Ok(NewBoolValue(v.b))}
                ELSE {AssertPanic(v, "bool")}
           [] v.k = "Int" -> NumberCase(v, "int")
           [] v.k = "Int32" -> NumberCase(v, "int32")
           [] v.k = "Int64" -> NumberCase(v, "int64")
           [] v.k = "Uint" -> NumberCase(v, "uint")
           [] v.k = "Uint32" -> NumberCase(v, "uint32")
           [] v.k = "Uint64" -> NumberCase(v, "uint64")
           [] v.k = "Float32" -> NumberCase(v, "float32")
           [] v.k = "Float64" -> NumberCase(v, "float64")
           [] v.k = "String" ->
                IF ~AssertsTo(v, "string") THEN {AssertPanic(v, "string")}
                ELSE IF ~ValidString(v.s) THEN {Err(ErrInvalidUTF8(v.s))}
                ELSE {Ok(NewStringValue(v.s))}
           [] v.k = "Struct" ->
                IF AssertsTo(v, "time.Time") THEN {Ok(NewTimestampValue(v))}
                ELSE NewValue(MapV("map[string]interface{}", Decode(v)))
           [] v.k = "Map" ->
                UNION {{IF o.st = "ok" THEN Ok(NewStructValue(o.val))
                        ELSE IF o.st = "err" THEN Err(ErrConvertStruct(o.err))
                        ELSE o : o \in NewStruct(reflected)}
                       : reflected \in Reflected(v)}
           [] v.k = "Slice" ->
                IF IsByteSlice(v) THEN {Ok(NewStringValue(EncodeToString(v.bs)))}
                ELSE SliceLoop(v, 1, MakeValues(SliceLen(v)))
           [] OTHER -> {Err(ErrInvalidType(TypeOf(v)))}

(***************************************************************************)
(* The decoders AsInterface, AsMap and AsSlice.  They return a Go value;   *)
(* PanicV stands for a call that panics on a nil pointer dereference.      *)
(***************************************************************************)
PanicV == [k |-> "PANIC"]

Deref(val) == [deref |-> "ok", val |-> val]
NilDeref(val) == [deref |-> "nil", val |-> val]

\* a plausible slip: x.Data read without the nil check of the getter
GetDataUnchecked(x) == IF IsNilPtr(x) THEN NilDeref(EmptyMap) ELSE Deref(x.Data)

\* x.GetData(): nil-safe, a nil *Struct has no entries
GetData(x) == IF IsNilPtr(x) THEN Deref(EmptyMap) ELSE Deref(x.Data)

\* x.GetValues(): nil-safe, a nil *ListValue has no elements
GetValues(x) == IF IsNilPtr(x) THEN Deref(<<>>) ELSE Deref(x.Values)

\* x.GetSeconds() and x.GetNanos(): nil-safe, zero on a nil *Timestamp
GetSeconds(x) == IF IsNilPtr(x) THEN 0 ELSE x.seconds
GetNanos(x) == IF IsNilPtr(x) THEN 0 ELSE x.nanos

\* x.AsTime(): time.Unix(x.GetSeconds(), x.GetNanos()).UTC()
AsTime(x) == TimeV(GetSeconds(x), GetNanos(x), "UTC")

\* the texts "NaN", "Infinity" and "-Infinity"
TextNaN == <<78, 97, 78>>
TextInfinity == <<73, 110, 102, 105, 110, 105, 116, 121>>
TextNegInfinity == <<45>> \o TextInfinity

RECURSIVE AsInterface(_)

AsSlice(x) ==
    LET g == GetValues(x)
        vs == [i \in 1..Len(g.val) |-> AsInterface(g.val[i])]
    IN  IF g.deref # "ok" \/ \E i \in 1..Len(g.val) : vs[i] = PanicV THEN PanicV
        ELSE ListV("[]interface{}", vs)

AsMap(x) ==
    LET g == GetData(x)
        vs == [key \in DOMAIN g.val |-> AsInterface(g.val[key])]
    IN  IF g.deref # "ok" \/ \E key \in DOMAIN g.val : vs[key] = PanicV THEN PanicV
        ELSE MapV("map[string]interface{}", vs)

AsInterface(x) ==
    IF x.vk \in {"nil", "unset"} \/ "nilw" \in DOMAIN x THEN NilV
    ELSE CASE x.vk = "NumberValue" ->
                IF IsNaN(x.f) THEN StringV("string", TextNaN)
                ELSE IF IsInf(x.f, 1) THEN StringV("string", TextInfinity)
                ELSE IF IsInf(x.f, -1) THEN StringV("string", TextNegInfinity)
                ELSE FloatV("Float64", "float64", x.f)
           [] x.vk = "StringValue" -> StringV("string", x.s)
           [] x.vk = "TimestampValue" -> AsTime(x.ts)
           [] x.vk = "BoolValue" -> BoolV("bool", x.b)
           [] x.vk = "StructValue" -> AsMap(x.sv)
           [] x.vk = "ListValue" -> AsSlice(x.lv)
           [] OTHER -> NilV

(***************************************************************************)
(* The inputs of the model.                                                *)
(***************************************************************************)
SeqsUpTo(S, n) == UNION {[1..len -> S] : len \in 0..n}
FunsUpTo(K, V, n) == UNION {[D -> V] : D \in {D \in SUBSET K : Cardinality(D) <= n}}

StrBytes == {97, 195, 169, 255}
Strs == SeqsUpTo(StrBytes, MaxStrLen)

BlobBytes == {104, 105, 255}
Blobs == SeqsUpTo(BlobBytes, MaxBlobLen)

\* <<kind, type, signed, wider than 8 bits>>
IntTypes ==
    {<<"Int", "int", TRUE, TRUE>>, <<"Int8", "int8", TRUE, FALSE>>,
     <<"Int16", "int16", TRUE, TRUE>>, <<"Int32", "int32", TRUE, TRUE>>,
     <<"Int64", "int64", TRUE, TRUE>>, <<"Uint", "uint", FALSE, TRUE>>,
     <<"Uint8", "uint8", FALSE, FALSE>>, <<"Uint16", "uint16", FALSE, TRUE>>,
     <<"Uint32", "uint32", FALSE, TRUE>>, <<"Uint64", "uint64", FALSE, TRUE>>,
     <<"Uintptr", "uintptr", FALSE, TRUE>>, <<"Int", "MyInt", TRUE, TRUE>>}

IntValsOf(t) ==
    {0, 5} \cup (IF t[3] THEN {-5} ELSE {}) \cup (IF t[4] THEN {300} ELSE {})

FloatVals == {Fin(0), Fin(-2), NaN, Inf(1), Inf(-1)}

Times == {TimeV(sec, nsec, loc) : sec \in {-1, 1700}, nsec \in {0, 999},
                                  loc \in {"UTC", "Local"}}

KeyA == <<97>>
KeyB == <<98>>
KeyBad == <<255>>
FieldX == <<88>>
FieldY == <<89>>

StdMap == "map[string]interface{}"
StdList == "[]interface{}"

Scalars ==
    {NilV}
    \cup {BoolV(ty, b) : ty \in {"bool", "MyBool"}, b \in BOOLEAN}
    \cup UNION {{IntV(t[1], t[2], i) : i \in IntValsOf(t)} : t \in IntTypes}
    \cup {FloatV("Float32", "float32", f) : f \in FloatVals}
    \cup {FloatV("Float64", ty, f) : ty \in {"float64", "MyFloat"}, f \in FloatVals}
    \cup {StringV(ty, s) : ty \in {"string", "MyString"}, s \in Strs}
    \cup Times
    \cup {BytesV(ty, b) : ty \in {"[]byte", "MyBytes"}, b \in Blobs}
    \cup {OtherV("Ptr", "*int"), OtherV("Chan", "chan int"), OtherV("Func", "func()"),
          OtherV("Complex128", "complex128"), OtherV("Array", "[2]int")}

\* the values stored in the containers of the model
ElemVals ==
    {NilV, BoolV("bool", TRUE), IntV("Int", "int", 5), FloatV("Float64", "float64", NaN),
     StringV("string", KeyA), StringV("string", KeyBad), IntV("Int8", "int8", 5),
     BoolV("MyBool", TRUE), TimeV(1700, 999, "Local")}

Records ==
    {RecordV("Point", fs) : fs \in [{FieldX, FieldY} ->
        {IntV("Int", "int", 5), IntV("Int8", "int8", 5), StringV("string", KeyBad)}]}

Lists ==
    {ListV(StdList, l) : l \in SeqsUpTo(ElemVals, MaxLen)}
    \cup {ListV("[]string", l) :
            l \in SeqsUpTo({StringV("string", KeyA), StringV("string", KeyBad)}, MaxLen)}

Maps ==
    {MapV(ty, m) : ty \in {StdMap, "map[MyString]interface{}"},
                   m \in FunsUpTo({KeyA, KeyB, KeyBad}, ElemVals, MaxKeys)}
    \cup {IntMapV("map[int]interface{}", mi) : mi \in FunsUpTo({1, 2, 3}, ElemVals, MaxKeys)}

\* a value placed inside one more list or map
Wrap(v) ==
    {ListV(StdList, <<v>>), ListV(StdList, <<NilV, v>>),
     MapV(StdMap, KeyA :> v), MapV(StdMap, (KeyA :> v) @@ (KeyB :> IntV("Int", "int", 5)))}

NestBase ==
    {MapV(StdMap, KeyBad :> NilV), MapV(StdMap, KeyA :> NilV),
     MapV(StdMap, (KeyBad :> NilV) @@ (KeyA :> IntV("Int8", "int8", 5))),
     StringV("string", KeyBad), IntV("Int", "int", 5),
     ListV(StdList, <<BoolV("bool", TRUE), NilV>>)}

RECURSIVE Nested(_)
Nested(d) ==
    IF d = 0 THEN NestBase
    ELSE LET inner == Nested(d - 1) IN inner \cup UNION {Wrap(v) : v \in inner}

DynInputs == Scalars \cup Records \cup Lists \cup Maps \cup Nested(MaxDepth)

\* Values handed to the decoder directly
InnerValues ==
    {NilValue, UnsetValue, NewNullValue, NewBoolValue(TRUE), NewNumberValue(NaN),
     NewNumberValue(Fin(3)), NewStringValue(KeyA), NilWrapper("StructValue"),
     NewStructValue(NilPtr), NewListValue(NilPtr),
     [vk |-> "TimestampValue", ts |-> NilPtr],
     [vk |-> "TimestampValue", ts |-> TimestampPtr(1700, 999)]}

VariantKinds ==
    {"NullValue", "BoolValue", "NumberValue", "StringValue", "TimestampValue",
     "StructValue", "ListValue"}

ShallowValues ==
    InnerValues
    \cup {NilWrapper(kind) : kind \in VariantKinds}
    \cup {NewBoolValue(FALSE), NewNumberValue(Inf(1)), NewNumberValue(Inf(-1)),
          NewStringValue(KeyBad), NewStringValue(<<>>)}
    \cup {NewListValue(ListPtr(l)) : l \in SeqsUpTo(InnerValues, MaxLen)}
    \cup {NewStructValue(StructPtr(m)) : m \in FunsUpTo({KeyA, KeyB}, InnerValues, MaxKeys)}

ValueInputs ==
    ShallowValues
    \cup {NewListValue(ListPtr(<<v, NilValue>>)) : v \in ShallowValues}
    \cup {NewStructValue(StructPtr(KeyA :> v)) : v \in ShallowValues}

(***************************************************************************)
(* The state machine: one call of an encoder on arg, optionally repeated   *)
(* on the same arg and followed by the decoder on its result; or one call  *)
(* of the decoder on xin.                                                  *)
(***************************************************************************)
NoOut == [st |-> "none"]
NoDec == [k |-> "NONE"]

Init ==
    /\ \/ mode = "encode" /\ arg \in DynInputs /\ xin = NilValue
       \/ mode = "decode" /\ arg = NilV /\ xin \in ValueInputs
    /\ pc = "start"
    /\ op = "none"
    /\ out = NoOut
    /\ out2 = NoOut
    /\ dec = NoDec

\* the outcomes of calling the encoder named o on arg
Encode(o) ==
    IF o = "NewValue" THEN NewValue(arg)
    ELSE IF o = "NewStruct" THEN NewStruct(arg.m)
    ELSE NewList(arg.l)

CallNewValue ==
    /\ pc = "start" /\ mode = "encode"
    /\ \E o \in NewValue(arg) : out' = o
    /\ op' = "NewValue"
    /\ pc' = "encoded"
    /\ UNCHANGED <<mode, arg, xin, out2, dec>>

\* NewStruct takes a map[string]interface{}
CallNewStruct ==
    /\ pc = "start" /\ mode = "encode"
    /\ TypeOf(arg) = StdMap
    /\ \E o \in NewStruct(arg.m) : out' = o
    /\ op' = "NewStruct"
    /\ pc' = "encoded"
    /\ UNCHANGED <<mode, arg, xin, out2, dec>>

\* NewList takes a []interface{}
CallNewList ==
    /\ pc = "start" /\ mode = "encode"
    /\ TypeOf(arg) = StdList
    /\ \E o \in NewList(arg.l) : out' = o
    /\ op' = "NewList"
    /\ pc' = "encoded"
    /\ UNCHANGED <<mode, arg, xin, out2, dec>>

\* the same encoder called once more on the same argument
CallAgain ==
    /\ pc = "encoded" /\ out2 = NoOut
    /\ \E o \in Encode(op) : out2' = o
    /\ UNCHANGED <<mode, arg, xin, pc, op, out, dec>>

\* the decoder matching the encoder, applied to the value it returned
DecodeResult ==
    /\ pc = "encoded" /\ out.st = "ok" /\ dec = NoDec
    /\ dec' = IF op = "NewValue" THEN AsInterface(out.val)
              ELSE IF op = "NewStruct" THEN AsMap(out.val)
              ELSE AsSlice(out.val)
    /\ UNCHANGED <<mode, arg, xin, pc, op, out, out2>>

CallAsInterface ==
    /\ pc = "start" /\ mode = "decode"
    /\ dec' = AsInterface(xin)
    /\ op' = "AsInterface"
    /\ pc' = "decoded"
    /\ UNCHANGED <<mode, arg, xin, out, out2>>

Next ==
    \/ CallNewValue
    \/ CallNewStruct
    \/ CallNewList
    \/ CallAgain
    \/ DecodeResult
    \/ CallAsInterface

Spec == Init /\ [][Next]_vars

(***************************************************************************)
(* Vocabulary of the properties.                                           *)
(***************************************************************************)
Encoded == pc = "encoded"
Decoded == dec # NoDec

\* every call of NewValue on v returns a Value / returns an error
Succeeds(v) == \A o \in NewValue(v) : o.st = "ok"
ReturnsError(v) == \A o \in NewValue(v) : o.st = "err"

\* a slice that reaches the generic branch of NewValue
IsGenericSlice(v) == v.k = "Slice" /\ TypeOf(v) # "[]byte"

\* element k is the first element of the slice v whose encoding fails
FirstFailure(v, k) ==
    /\ \A j \in 1..(k - 1) : Succeeds(SliceIndex(v, j))
    /\ ReturnsError(SliceIndex(v, k))

\* the innermost error of a chain of wrapped errors
RECURSIVE RootCause(_)
RootCause(e) == IF "cause" \in DOMAIN e THEN RootCause(e.cause) ELSE e

\* v holds, at some depth, a map with a key that is not valid UTF-8
RECURSIVE HasBadKey(_)
HasBadKey(v) ==
    IF v.k = "Map"
    THEN \/ HasStringKeys(v) /\ \E key \in DOMAIN v.m : ~ValidString(key)
         \/ \E key \in MapKeys(v) : HasBadKey(MapAt(v, key))
    ELSE IF v.k = "Slice" /\ ~HasBytes(v)
    THEN \E i \in 1..Len(v.l) : HasBadKey(v.l[i])
    ELSE FALSE

\* v holds, at some depth, a value other than a map or a list that NewValue
\* does not encode
RECURSIVE HasFailingLeaf(_)
HasFailingLeaf(v) ==
    IF v.k = "Map" THEN \E key \in MapKeys(v) : HasFailingLeaf(MapAt(v, key))
    ELSE IF v.k = "Slice" /\ ~HasBytes(v)
    THEN \E i \in 1..Len(v.l) : HasFailingLeaf(v.l[i])
    ELSE ~Succeeds(v)

\* the keys of every Struct inside the Value x are valid UTF-8
RECURSIVE KeysValid(_)
KeysValid(x) ==
    IF x.vk = "StructValue"
    THEN \A key \in DOMAIN x.sv.Data : ValidString(key) /\ KeysValid(x.sv.Data[key])
    ELSE IF x.vk = "ListValue"
    THEN \A i \in 1..Len(x.lv.Values) : KeysValid(x.lv.Values[i])
    ELSE TRUE

\* the integer types of the language, by width
DocumentedIntTypes == {"int", "int32", "int64", "uint", "uint32", "uint64"}
UndocumentedIntTypes == {"int8", "int16", "uint8", "uint16"}
IsInteger(v) == TypeOf(v) \in DocumentedIntTypes \cup UndocumentedIntTypes

\* the kinds NewValue has a case for
DispatchedKinds ==
    {"Nil", "Bool", "Int", "Int32", "Int64", "Uint", "Uint32", "Uint64", "Float32",
     "Float64", "String", "Struct", "Map", "Slice"}

\* the inputs of the round trip: null, bool, float64, valid UTF-8 string, time
IsRoundTripInput(v) ==
    \/ TypeOf(v) \in {"<nil>", "bool", "float64", "time.Time"}
    \/ TypeOf(v) = "string" /\ ValidString(v.s)

IsSpecialFloat(v) == TypeOf(v) = "float64" /\ v.f.cls # "fin"
Sentinel(f) ==
    StringV("string", IF IsNaN(f) THEN TextNaN
                      ELSE IF IsInf(f, 1) THEN TextInfinity ELSE TextNegInfinity)

\* standard base64, stated by decoding: text has 4 characters for every 3
\* bytes begun, padded with "=", and its 6-bit digits spell the bytes of b
B64Digit(c) ==
    IF c >= 65 /\ c <= 90 THEN c - 65
    ELSE IF c >= 97 /\ c <= 122 THEN c - 71
    ELSE IF c >= 48 /\ c <= 57 THEN c + 4
    ELSE IF c = 43 THEN 62
    ELSE IF c = 47 THEN 63 ELSE 0

B64Bits(text, g) ==
    B64Digit(text[4 * g - 3]) * 262144 + B64Digit(text[4 * g - 2]) * 4096
        + B64Digit(text[4 * g - 1]) * 64 + B64Digit(text[4 * g])

IsStdBase64Of(text, b) ==
    LET groups == (Len(b) + 2) \div 3
        pad == 3 * groups - Len(b)
    IN  /\ Len(text) = 4 * groups
        /\ \A j \in 1..Len(text) :
              IF j > Len(text) - pad THEN text[j] = 61
              ELSE text[j] \in (65..90) \cup (97..122) \cup (48..57) \cup {43, 47}
        /\ \A i \in 1..Len(b) :
              LET bits == B64Bits(text, (i + 2) \div 3)
                  pos == (i - 1) % 3
              IN  b[i] = IF pos = 0 THEN bits \div 65536
                         ELSE IF pos = 1 THEN (bits \div 256) % 256
                         ELSE bits % 256

\* the *Value elements of the list an encoder returned
ListValues == IF op = "NewValue" THEN out.val.lv.Values ELSE out.val.Values

\* xin is absent: nil, no variant set, a nil wrapper, or a null inner pointer
HasNilWrapper(x) == "nilw" \in DOMAIN x
HasNilInner(x, field) == field \in DOMAIN x /\ IsNilPtr(x[field])
IsAbsent(x) ==
    \/ x.vk \in {"nil", "unset"}
    \/ HasNilWrapper(x)
    \/ HasNilInner(x, "sv") \/ HasNilInner(x, "lv") \/ HasNilInner(x, "ts")

(***************************************************************************)
(* The properties.                                                         *)
(***************************************************************************)

\* C1: when element k of a slice passed to NewValue is the first one whose
\* encoding fails, NewValue returns an error (it does not panic) that names
\* the type of element k and carries the error of element k.
C1_FirstFailureIsReturned ==
    (Encoded /\ op = "NewValue" /\ IsGenericSlice(arg)) =>
        \A k \in 1..SliceLen(arg) :
            FirstFailure(arg, k) =>
                /\ out.st = "err"
                /\ out.err.e = "error unpacking field"
                /\ out.err.elemty = TypeOf(SliceIndex(arg, k))
                /\ Err(out.err.cause) \in NewValue(SliceIndex(arg, k))

\* C2: NewValue never panics: it returns a Value or an error on every input,
\* and on a value of a kind it has no case for, the invalid-type error
\* naming the runtime type of the value.
C2_NewValueNeverPanics ==
    (Encoded /\ op = "NewValue") =>
        /\ out.st \in {"ok", "err"}
        /\ arg.k \notin DispatchedKinds => out = Err(ErrInvalidType(TypeOf(arg)))

\* C3 (as claimed): NewValue turns an integer of every width, signed or
\* unsigned, into the Number holding that integer.
C3_EveryIntegerWidth ==
    (Encoded /\ op = "NewValue" /\ IsInteger(arg)) =>
        out = Ok(NewNumberValue(Fin(arg.i)))

\* C3 (amended): NewValue turns an int, int32, int64, uint, uint32 or uint64
\* into the Number holding that integer, and rejects an int8, int16, uint8 or
\* uint16 with the invalid-type error naming its type.
C3_DocumentedIntegerWidths ==
    (Encoded /\ op = "NewValue") =>
        /\ TypeOf(arg) \in DocumentedIntTypes => out = Ok(NewNumberValue(Fin(arg.i)))
        /\ TypeOf(arg) \in UndocumentedIntTypes => out = Err(ErrInvalidType(TypeOf(arg)))

C3_Witness ==
    /\ Encoded /\ op = "NewValue"
    /\ TypeOf(arg) = "int64" /\ arg.i = -5
    /\ out = Ok(NewNumberValue(Fin(-5)))

\* C4: a value holding, at any depth and through any mix of maps and slices,
\* a map with a key that is not valid UTF-8 makes NewValue, NewStruct and
\* NewList fail: an error is returned and no Value, and the error is the
\* invalid-encoding error (when nothing else in the value fails to encode,
\* so that no other failure can be met first).
C4_BadKeyAlwaysRejected ==
    (Encoded /\ HasBadKey(arg)) =>
        /\ out.st = "err"
        /\ ~HasFailingLeaf(arg) => RootCause(out.err).e = "invalid UTF-8 in string"

\* the half of C4 that the code keeps: the keys of every Struct of a
\* returned Value are valid UTF-8
C4_ReturnedKeysValid ==
    (Encoded /\ op = "NewValue" /\ out.st = "ok") => KeysValid(out.val)

\* C5 (as claimed): for v null, a bool, a float64, a valid UTF-8 string or a
\* time, NewValue(v) succeeds and AsInterface of the result equals v, except
\* that NaN and the infinities come back as their text.
C5_RoundTrip ==
    (Encoded /\ op = "NewValue" /\ IsRoundTripInput(arg)) =>
        /\ out.st = "ok"
        /\ Decoded => dec = IF IsSpecialFloat(arg) THEN Sentinel(arg.f) ELSE arg

\* C5 (amended): as above, except that a time comes back as the same instant
\* (seconds and nanoseconds) in UTC, whatever the location of v.
C5_RoundTripInstant ==
    (Encoded /\ op = "NewValue" /\ IsRoundTripInput(arg)) =>
        /\ out.st = "ok"
        /\ Decoded => dec = IF IsSpecialFloat(arg) THEN Sentinel(arg.f)
                            ELSE IF TypeOf(arg) = "time.Time"
                                 THEN TimeV(arg.sec, arg.nsec, "UTC")
                                 ELSE arg

C5_Witness ==
    /\ Encoded /\ op = "NewValue" /\ Decoded
    /\ arg = TimeV(1700, 999, "Local")
    /\ dec = TimeV(1700, 999, "UTC")

\* C6: two calls of the same encoder on the same value have the same
\* outcome: equal Values, or the same error.
C6_Deterministic == (Encoded /\ out2 # NoOut) => out2 = out

\* C7: NewValue turns a []byte b into the String whose text is the standard
\* base64 encoding of b (never into a List), and AsInterface returns that
\* text unchanged; the bytes "hi" give the text "aGk=".
C7_BytesAsBase64 ==
    (Encoded /\ op = "NewValue" /\ TypeOf(arg) = "[]byte") =>
        /\ out.st = "ok"
        /\ out.val.vk = "StringValue"
        /\ IsStdBase64Of(out.val.s, arg.bs)
        /\ arg.bs = <<104, 105>> => out.val.s = <<97, 71, 107, 61>>
        /\ Decoded => dec = StringV("string", out.val.s)

C7_Witness ==
    /\ Encoded /\ op = "NewValue" /\ Decoded
    /\ arg = BytesV("[]byte", <<104, 105, 255>>)
    /\ dec = StringV("string", <<97, 71, 110, 47>>)

\* C8: a slice whose elements all encode is encoded, by NewValue and by
\* NewList, as a List of the same length whose i-th element is the encoding
\* of the i-th element, and decoding gives a slice of the same length whose
\* i-th element is the decoding of that encoding.
C8_ListOrderPreserved ==
    (/\ Encoded
     /\ (op = "NewValue" /\ IsGenericSlice(arg)) \/ op = "NewList"
     /\ \A i \in 1..SliceLen(arg) : Succeeds(SliceIndex(arg, i))) =>
        /\ out.st = "ok"
        /\ Len(ListValues) = SliceLen(arg)
        /\ \A i \in 1..SliceLen(arg) : Ok(ListValues[i]) \in NewValue(SliceIndex(arg, i))
        /\ Decoded =>
              /\ dec.k = "Slice"
              /\ Len(dec.l) = SliceLen(arg)
              /\ \A i \in 1..SliceLen(arg) : dec.l[i] = AsInterface(ListValues[i])

C8_Witness ==
    /\ Encoded /\ op = "NewValue" /\ Decoded
    /\ arg = ListV(StdList, <<IntV("Int", "int", 5), StringV("string", KeyA)>>)
    /\ dec = ListV(StdList, <<FloatV("Float64", "float64", Fin(5)), StringV("string", KeyA)>>)

\* C9 (as claimed): AsInterface never panics, and a nil Value, a Value with
\* no variant, and a Value whose variant holds a null pointer decode to nil.
C9_AbsentDecodesToNil ==
    pc = "decoded" =>
        /\ dec # PanicV
        /\ IsAbsent(xin) => dec = NilV

\* C9 (amended): AsInterface never panics; a nil Value, a Value with no
\* variant and a Value whose variant is a nil wrapper decode to nil; a Struct,
\* List or Timestamp variant holding a null pointer decodes to the empty map,
\* the empty slice and the Unix epoch in UTC.
C9_DecodeTotal ==
    pc = "decoded" =>
        /\ dec # PanicV
        /\ (xin.vk \in {"nil", "unset"} \/ HasNilWrapper(xin)) => dec = NilV
        /\ HasNilInner(xin, "sv") => dec = MapV(StdMap, EmptyMap)
        /\ HasNilInner(xin, "lv") => dec = ListV(StdList, <<>>)
        /\ HasNilInner(xin, "ts") => dec = TimeV(0, 0, "UTC")

C9_Witness ==
    /\ pc = "decoded"
    /\ xin = NewStructValue(StructPtr(KeyA :> NewStructValue(NilPtr)))
    /\ dec = MapV(StdMap, KeyA :> MapV(StdMap, EmptyMap))

\* C10: when NewValue succeeds on a map, the Struct has exactly one entry
\* per entry of the map, under the text of its key, holding the encoding of
\* the value stored under that key.
C10_EntriesPreserved ==
    (Encoded /\ op = "NewValue" /\ arg.k = "Map" /\ out.st = "ok") =>
        LET data == out.val.sv.Data IN
        /\ Cardinality(DOMAIN data) = Cardinality(MapKeys(arg))
        /\ \A key \in MapKeys(arg) :
              /\ KeyString(arg, key) \in DOMAIN data
              /\ Ok(data[KeyString(arg, key)]) \in NewValue(MapAt(arg, key))

====
